---- MODULE Spec2Model ----
(***************************************************************************)
(* A model of alexa-ts (src/src/index.ts): PromiseOrValue.map, the         *)
(* response assembly, the intent router, Pipe.join / Pipe.toHandler and    *)
(* the auxiliary steps.  One invocation of a handler is one run-to-        *)
(* completion synchronous part (action Invoke) followed by one action per  *)
(* promise reaction (action RunReaction) when the result is deferred.      *)
(*                                                                         *)
(* JavaScript values are modelled as follows.  Conversation states are     *)
(* strings; UNDEF stands for the value undefined and "" is the (falsy)     *)
(* empty string.  Objects are records; an optional property is a key that  *)
(* is or is not in the DOMAIN of the record.                               *)
(***************************************************************************)
EXTENDS Naturals, Sequences, FiniteSets, TLC

VARIABLES
  handler,    \* the handler under test: how it was built, and from what
  phase,      \* "idle" | "pending" | "done": position of the invocation
  event,      \* the request body of the current invocation
  behaviour,  \* what the user-supplied functions do in this invocation
  returned,   \* what handler(event) returned or threw, as it returned
  outcome,    \* the same, a returned promise followed through its reactions
  trace,      \* the calls made during this invocation, in order
  fedBack,    \* TRUE when event carries the previous response's attributes
  prevTurn,   \* the previous turn, as far as the next one can depend on it
  calls       \* invocations of the one handler that are under way together

vars ==
  <<handler, phase, event, behaviour, returned, outcome, trace, fedBack,
    prevTurn, calls>>

----------------------------------------------------------------------------
(* Values *)

UNDEF == "undefined"

\* A conversation state is opaque to the library.  "" is falsy, as are
\* 0, null, false and NaN, which "" stands for.
StateValues == {UNDEF, "", "start", "step2"}

\* ToBoolean of a state value, as the operator || applies it.
Truthy(v) == v \notin {UNDEF, ""}

\* a || b
OrElse(a, b) == IF Truthy(a) THEN a ELSE b

\* The value undefined where a response body is expected (Handler returns
\* ResponseBody | void).
Void == [t |-> "undefined"]

Error(msg) == [t |-> "Error", message |-> msg]

\* The empty object {} and the empty Map.
EmptyObj == [k \in {} |-> UNDEF]

\* typeof obj[key] !== 'undefined'
Defined(obj, key) == key \in DOMAIN obj /\ obj[key] # UNDEF

\* obj with obj[key] = val assigned.
Assign(obj, key, val) ==
  [k \in DOMAIN obj \cup {key} |-> IF k = key THEN val ELSE obj[k]]

----------------------------------------------------------------------------
(* Completions: what a call returns.  kind "value" is a plain return,     *)
(* "throw" a synchronous exception, "promise" a returned Promise whose     *)
(* settlement (settle, val) passes through the reactions in chain, which   *)
(* were attached with .then(onFulfilled), before it reaches the caller.    *)

Return(v, tr) ==
  [kind |-> "value", settle |-> "na", val |-> v, chain |-> <<>>, trace |-> tr]

Throw(e, tr) ==
  [kind |-> "throw", settle |-> "na", val |-> e, chain |-> <<>>, trace |-> tr]

Deferred(how, v, tr) ==
  [kind |-> "promise", settle |-> how, val |-> v, chain |-> <<>>, trace |-> tr]

----------------------------------------------------------------------------
(* Response assembly *)

Ok(v) == [ok |-> TRUE, v |-> v]
Fail(e) == [ok |-> FALSE, v |-> e]

\* A makeSpeech that falls back on empty plain text.
makeSpeechWithPlaceholder(speech) ==
  IF Defined(speech, "SSML")
    THEN Ok([type |-> "SSML", ssml |-> speech.SSML])
  ELSE IF Defined(speech, "Text")
    THEN Ok([type |-> "PlainText", text |-> speech.Text])
  ELSE Ok([type |-> "PlainText", text |-> ""])

makeSpeech(speech) ==
  IF Defined(speech, "SSML")
    THEN Ok([type |-> "SSML", ssml |-> speech.SSML])
  ELSE IF Defined(speech, "Text")
    THEN Ok([type |-> "PlainText", text |-> speech.Text])
  ELSE Fail(Error("Speech contains neither text nor SSML."))

makeCard(card) ==
  IF card.Type = "LinkAccount"
    THEN [type |-> "LinkAccount"]
  ELSE IF "Image" \in DOMAIN card
    THEN [type |-> "Standard", title |-> card.Title, text |-> card.Content,
          image |-> [largeImageUrl |-> card.Image.LargeUrl,
                     smallImageUrl |-> card.Image.SmallUrl]]
  ELSE [type |-> "Simple", title |-> card.Title, content |-> card.Content]

\* A makeResponse that ends the session unless told otherwise.
makeResponseEndingSession(response) ==
  LET speech == makeSpeech(response.Say)
      endSession == IF "EndSession" \in DOMAIN response
                      THEN response.EndSession ELSE TRUE
  IN  IF ~speech.ok THEN speech
      ELSE Ok([outputSpeech |-> speech.v, shouldEndSession |-> endSession])

makeResponse(response) ==
  LET speech == makeSpeech(response.Say)
      endSession == IF "EndSession" \in DOMAIN response
                      THEN response.EndSession ELSE FALSE
      output == [outputSpeech |-> speech.v, shouldEndSession |-> endSession]
      reprompt == makeSpeech(response.Reprompt)
      withCard(o) == IF "Card" \in DOMAIN response
                       THEN Assign(o, "card", makeCard(response.Card)) ELSE o
  IN  IF ~speech.ok THEN speech
      ELSE IF "Reprompt" \in DOMAIN response
        THEN IF ~reprompt.ok THEN reprompt
             ELSE Ok(withCard(Assign(output, "reprompt",
                                     [outputSpeech |-> reprompt.v])))
      ELSE Ok(withCard(output))

sessionStateKey == "_alexaTsState"

\* A response that persists only a replacement state.
sessionAttributesNewOnly(output, previousState) ==
  IF "NewState" \in DOMAIN output
    THEN Assign(EmptyObj, sessionStateKey, output.NewState)
    ELSE EmptyObj

\* A response that persists the previous state whenever there is one.
sessionAttributesPreviousFirst(output, previousState) ==
  IF previousState # UNDEF
    THEN Assign(EmptyObj, sessionStateKey, previousState)
  ELSE IF "NewState" \in DOMAIN output
    THEN Assign(EmptyObj, sessionStateKey, output.NewState)
  ELSE EmptyObj

\* The sessionAttributes object that response builds; previousState = UNDEF
\* when the argument is omitted or undefined.
sessionAttributesFor(output, previousState) ==
  IF "NewState" \in DOMAIN output
    THEN Assign(EmptyObj, sessionStateKey, output.NewState)
  ELSE IF previousState # UNDEF
    THEN Assign(EmptyObj, sessionStateKey, previousState)
  ELSE EmptyObj

response(output, previousState) ==
  LET sessionAttributes == sessionAttributesFor(output, previousState)
      body == makeResponse(output)
  IN  IF ~body.ok THEN body
      ELSE Ok([version |-> "1.0", response |-> body.v,
               sessionAttributes |-> sessionAttributes])

----------------------------------------------------------------------------
(* PromiseOrValue.map.  onFulfilled is a reaction: a record naming the     *)
(* closure and what it captured.                                           *)

\* output => response(output, state), the closure the router passes to map.
ResponseReaction(state) == [fn |-> "response", state |-> state]

\* (response) => { logger('Response:', response); return response }
LogReaction == [fn |-> "logResponse"]

\* A caller's transform T => PromiseOrValue<U>: it returns Mapped(v), returns
\* a promise of it, throws, or returns a promise that rejects.
TransformReaction(mode) == [fn |-> "transform", mode |-> mode]

Mapped(v) == [t |-> "mapped", of |-> v]

TransformError == Error("transform failed")

\* null, the error argument of a callback that reports a result.
Null == [t |-> "null"]

\* The callback is the caller's: host says what it does when called, return
\* or throw.
Hosts == {"returns", "throws"}

CallbackError == Error("callback failed")

\* data => callback(null, data), attached with .then by lambdaFromHandler.
CallbackReaction(host) == [fn |-> "callback", host |-> host]

\* callback, attached with .catch by lambdaFromHandler: the one reaction
\* that is called on a rejection, with the reason as its only argument.
CatchReaction(host) == [fn |-> "catch", host |-> host]

\* reaction is an onRejected, not an onFulfilled.
OnRejected(reaction) == reaction.fn = "catch"

\* callback(error, result) and callback(error): the call is recorded with
\* the arguments it was given, and returns undefined or throws.
callback2(host, error, result, tr) ==
  LET tr2 == Append(tr, [op |-> "callback", error |-> error,
                         result |-> result])
  IN  IF host = "throws" THEN Throw(CallbackError, tr2) ELSE Return(Void, tr2)

callback1(host, error, tr) ==
  LET tr2 == Append(tr, [op |-> "callback", error |-> error])
  IN  IF host = "throws" THEN Throw(CallbackError, tr2) ELSE Return(Void, tr2)

\* onFulfilled(v): the call of a reaction on a value.
CallReaction(onFulfilled, v, tr) ==
  CASE onFulfilled.fn = "response" ->
         LET r == response(v, onFulfilled.state)
         IN  IF r.ok THEN Return(r.v, tr) ELSE Throw(r.v, tr)
    [] onFulfilled.fn = "logResponse" ->
         Return(v, Append(tr, [op |-> "log", message |-> "Response:",
                               obj |-> v]))
    [] onFulfilled.fn = "callback" -> callback2(onFulfilled.host, Null, v, tr)
    [] onFulfilled.fn = "catch" -> callback1(onFulfilled.host, v, tr)
    [] onFulfilled.fn = "transform" ->
         LET tr2 == Append(tr, [op |-> "transform", arg |-> v])
         IN  CASE onFulfilled.mode = "sync"   -> Return(Mapped(v), tr2)
               [] onFulfilled.mode = "async"  -> Deferred("fulfil", Mapped(v), tr2)
               [] onFulfilled.mode = "throw"  -> Throw(TransformError, tr2)
               [] onFulfilled.mode = "reject" ->
                    Deferred("reject", TransformError, tr2)

\* promiseOrValue.then(onFulfilled)
Then(promise, onFulfilled) ==
  [promise EXCEPT !.chain = Append(@, onFulfilled)]

\* promise.catch(onRejected)
Catch(promise, onRejected) ==
  [promise EXCEPT !.chain = Append(@, onRejected)]

\* A map that goes through a promise whatever it is given:
\* Promise.resolve(promiseOrValue).then(onFulfilled).
PromiseOrValueMapAlwaysDeferred(promiseOrValue, onFulfilled) ==
  IF promiseOrValue.kind = "promise"
    THEN Then(promiseOrValue, onFulfilled)
    ELSE Then(Deferred("fulfil", promiseOrValue.val, promiseOrValue.trace),
              onFulfilled)

\* A map that hands a promise back as it came.
PromiseOrValueMapValuesOnly(promiseOrValue, onFulfilled) ==
  IF promiseOrValue.kind = "promise"
    THEN promiseOrValue
    ELSE CallReaction(onFulfilled, promiseOrValue.val, promiseOrValue.trace)

\* PromiseOrValue.map(promiseOrValue, onFulfilled), promiseOrValue being the
\* completion of the expression passed in (a value or a promise).
PromiseOrValueMap(promiseOrValue, onFulfilled) ==
  IF promiseOrValue.kind = "promise"
    THEN Then(promiseOrValue, onFulfilled)
    ELSE CallReaction(onFulfilled, promiseOrValue.val, promiseOrValue.trace)

\* An argument expression that threw: the enclosing call is never made.
MapUnlessThrown(c, onFulfilled) ==
  IF c.kind = "throw" THEN c ELSE PromiseOrValueMap(c, onFulfilled)

----------------------------------------------------------------------------
(* User-supplied functions.  What they do is an input of the invocation:   *)
(* beh.mode says whether the function returns its result, returns a        *)
(* promise that fulfils with it, throws, or returns a promise that         *)
(* rejects.  Each call is recorded in the trace.                           *)

HandlerError == Error("handler failed")

UserCall(entry, beh, tr) ==
  LET tr2 == Append(tr, entry)
  IN  CASE beh.mode = "sync"   -> Return(beh.result, tr2)
        [] beh.mode = "async"  -> Deferred("fulfil", beh.result, tr2)
        [] beh.mode = "throw"  -> Throw(HandlerError, tr2)
        [] beh.mode = "reject" -> Deferred("reject", HandlerError, tr2)

\* handler(state, slots) for an IntentHandler registered under id.
CallIntentHandler(self, id, state, slots, beh, tr) ==
  UserCall([op |-> "handler", by |-> self, id |-> id, state |-> state,
            slots |-> slots], beh, tr)

----------------------------------------------------------------------------
(* The router *)

\* `AMAZON.${key}Intent`
StandardName(key) == "AMAZON." \o key \o "Intent"

handlerObjToMap(obj) ==
  [name \in {StandardName(key) : key \in DOMAIN obj} |->
     obj[CHOOSE key \in DOMAIN obj : StandardName(key) = name]]

\* new Map(pairs): a later pair replaces an earlier one with the same key.
NewMap(pairs) ==
  [name \in {pairs[i][1] : i \in DOMAIN pairs} |->
     LET last == CHOOSE i \in DOMAIN pairs :
                   /\ pairs[i][1] = name
                   /\ \A j \in DOMAIN pairs : pairs[j][1] = name => j <= i
     IN  pairs[last][2]]

getState(ev) ==
  IF /\ "session" \in DOMAIN ev
     /\ "attributes" \in DOMAIN ev.session
     /\ sessionStateKey \in DOMAIN ev.session.attributes
    THEN ev.session.attributes[sessionStateKey]
    ELSE UNDEF

\* intent carries no slots key when the request has no slot collection.
slotsToMap(intent) ==
  IF "slots" \in DOMAIN intent
    THEN LET slots == intent.slots
         IN  [name \in {slots[key].name : key \in DOMAIN slots} |->
                slots[CHOOSE key \in DOMAIN slots : slots[key].name = name].value]
    ELSE EmptyObj

RECURSIVE CallNext(_, _, _, _)
RECURSIVE RunPipe(_, _, _, _, _)
RECURSIVE processNext(_, _, _, _, _)

\* A router that returns nothing where it should fall through.
fallThroughSilently(self, ev, next, beh, tr) == Return(Void, tr)

\* return next(event), the last statement of the router.
fallThrough(self, ev, next, beh, tr) ==
  CallNext(next, ev, beh, Append(tr, [op |-> "next", by |-> self, event |-> ev]))

\* getState(event) || routes.InitialState
deriveState(routes, ev) == OrElse(getState(ev), routes.InitialState)

\* PromiseOrValue.map(handler(state, slots), output => response(output, state))
respondWith(self, id, state, slots, beh, tr) ==
  MapUnlessThrown(CallIntentHandler(self, id, state, slots, beh, tr),
                  ResponseReaction(state))

NoHandler == [found |-> FALSE, handler |-> "none"]

\* A router that looks in the custom table first.
lookupCustomFirst(standardIntents, customIntents, name) ==
  IF name \in DOMAIN customIntents
    THEN [found |-> TRUE, handler |-> customIntents[name]]
  ELSE IF name \in DOMAIN standardIntents
    THEN [found |-> TRUE, handler |-> standardIntents[name]]
  ELSE [found |-> FALSE, handler |-> "none"]

\* The two lookups of the IntentRequest case: standardIntents.has(name), then
\* customIntents.has(name).
lookupIntent(standardIntents, customIntents, name) ==
  IF name \in DOMAIN standardIntents
    THEN [found |-> TRUE, handler |-> standardIntents[name]]
  ELSE IF name \in DOMAIN customIntents
    THEN [found |-> TRUE, handler |-> customIntents[name]]
  ELSE NoHandler

\* A SessionEnded branch that goes on to the fall-through after the callback.
sessionEndedThenNext(self, ev, next, beh, tr) ==
  LET c == UserCall([op |-> "SessionEnded", by |-> self],
                    [beh EXCEPT !.result = Void], tr)
  IN  IF c.kind = "throw" THEN c ELSE fallThrough(self, ev, next, beh, c.trace)

\* return routes.SessionEnded(): the callback takes no argument and its
\* result, undefined unless it fails, is the router's.
sessionEnded(self, ev, next, beh, tr) ==
  UserCall([op |-> "SessionEnded", by |-> self],
           [beh EXCEPT !.result = Void], tr)

\* The function router(routes) returns, called with (ev, next); self names
\* the step in the trace.
router(self, routes, ev, next, beh, tr) ==
  LET standardIntents ==
        handlerObjToMap(IF "Standard" \in DOMAIN routes
                          THEN routes.Standard ELSE EmptyObj)
      customIntents ==
        NewMap(IF "Custom" \in DOMAIN routes THEN routes.Custom ELSE <<>>)
      state == deriveState(routes, ev)
      type == ev.request.type
      intent == ev.request.intent
      slots == slotsToMap(intent)
      found == lookupIntent(standardIntents, customIntents, intent.name)
  IN  IF type = "LaunchRequest" /\ "Launch" \in DOMAIN routes
        THEN respondWith(self, routes.Launch, state, EmptyObj, beh, tr)
      ELSE IF type = "SessionEndedRequest" /\ "SessionEnded" \in DOMAIN routes
        THEN sessionEnded(self, ev, next, beh, tr)
      ELSE IF type = "IntentRequest" /\ found.found
        THEN respondWith(self, found.handler, state, slots, beh, tr)
      ELSE fallThrough(self, ev, next, beh, tr)

----------------------------------------------------------------------------
(* Pipes.  A pipe is a record [kind, ...]; a continuation (a Handler passed *)
(* as next) is a record [k, ...].                                          *)

\* () => { throw new Error('Event unhandled') }
Thrower == [k |-> "thrower"]

\* next left out by the caller of a pipe.
NoNext == [k |-> "undefined"]

\* A next supplied by the caller of a pipe: a Handler of the caller's own.
External == [k |-> "external"]

\* What the caller's next answers with.
TerminalBody ==
  [version |-> "1.0",
   response |-> [outputSpeech |-> [type |-> "PlainText", text |-> "terminal"],
                 shouldEndSession |-> TRUE]]

\* processNext(remainingHandlers), closed over the next of the join.
ProcessNextOf(remainingHandlers, next) ==
  [k |-> "processNext", remainingHandlers |-> remainingHandlers, next |-> next]

\* A tracer that logs what next returned as soon as it returned, a promise
\* included.
tracerLoggingAtOnce(self, ev, next, beh, tr) ==
  LET logged == Append(tr, [op |-> "log", message |-> "Request:", obj |-> ev])
      result == CallNext(next, ev, beh,
                  Append(logged, [op |-> "next", by |-> self, event |-> ev]))
  IN  IF result.kind = "throw" THEN result
      ELSE [result EXCEPT !.trace = Append(@, [op |-> "log",
                                               message |-> "Response:",
                                               obj |-> result.val])]

\* tracer(logger)(ev, next), the logger recording into the trace.
tracer(self, ev, next, beh, tr) ==
  LET logged == Append(tr, [op |-> "log", message |-> "Request:", obj |-> ev])
      result == CallNext(next, ev, beh,
                  Append(logged, [op |-> "next", by |-> self, event |-> ev]))
  IN  MapUnlessThrown(result, LogReaction)

\* doNothing()(ev, next)
doNothing(self, ev, next, beh, tr) ==
  CallNext(next, ev, beh,
           Append(tr, [op |-> "next", by |-> self, event |-> ev]))

\* A caller's own step that answers without calling next.
FinalBody ==
  [version |-> "1.0",
   response |-> [outputSpeech |-> [type |-> "PlainText", text |-> "final"],
                 shouldEndSession |-> TRUE]]

finalStep(self, ev, next, beh, tr) ==
  UserCall([op |-> "final", by |-> self, event |-> ev],
           [beh EXCEPT !.result = FinalBody], tr)

\* A caller's own step that passes a changed request on: it marks the
\* request with its name and returns next(changed).
Rewritten(ev, self) == Assign(ev, "version", self)

rewriteStep(self, ev, next, beh, tr) ==
  CallNext(next, Rewritten(ev, self), beh,
           Append(tr, [op |-> "next", by |-> self,
                       event |-> Rewritten(ev, self)]))

\* next(ev)
CallNext(next, ev, beh, tr) ==
  CASE next.k = "thrower" ->
         Throw(Error("Event unhandled"), Append(tr, [op |-> "thrower"]))
    [] next.k = "processNext" ->
         processNext(next.remainingHandlers, next.next, ev, beh, tr)
    [] next.k = "undefined" ->
         Throw(Error("TypeError: next is not a function"), tr)
    [] next.k = "external" ->
         UserCall([op |-> "terminal", event |-> ev],
                  [beh EXCEPT !.result = TerminalBody], tr)

\* A join that runs the remaining steps even after a step that answered
\* without calling its continuation.
processNextEagerly(remainingHandlers, next, ev, beh, tr) ==
  IF Len(remainingHandlers) = 0
    THEN IF next.k # "undefined"
           THEN CallNext(next, ev, beh,
                         Append(tr, [op |-> "next", by |-> "join", event |-> ev]))
           ELSE Return(Void, tr)
    ELSE LET nextHandler == remainingHandlers[1]
             newRemaining == Tail(remainingHandlers)
             first == RunPipe(nextHandler, ev, ProcessNextOf(<<>>, NoNext), beh, tr)
         IN  IF first.kind = "throw" THEN first
             ELSE processNext(newRemaining, next, ev, beh, first.trace)

\* A join whose continuations leave out the step after the next one.
processNextSkipping(remainingHandlers, next, ev, beh, tr) ==
  IF Len(remainingHandlers) = 0
    THEN IF next.k # "undefined"
           THEN CallNext(next, ev, beh,
                         Append(tr, [op |-> "next", by |-> "join", event |-> ev]))
           ELSE Return(Void, tr)
    ELSE LET nextHandler == remainingHandlers[1]
             newRemaining == IF Len(remainingHandlers) > 1
                               THEN Tail(Tail(remainingHandlers)) ELSE <<>>
         IN  RunPipe(nextHandler, ev, ProcessNextOf(newRemaining, next), beh, tr)

\* A join that calls next whether or not it was supplied.
processNextRequiringNext(remainingHandlers, next, ev, beh, tr) ==
  IF Len(remainingHandlers) = 0
    THEN CallNext(next, ev, beh,
                  Append(tr, [op |-> "next", by |-> "join", event |-> ev]))
    ELSE LET nextHandler == remainingHandlers[1]
             newRemaining == Tail(remainingHandlers)
         IN  RunPipe(nextHandler, ev, ProcessNextOf(newRemaining, next), beh, tr)

\* processNext(remainingHandlers)(ev) inside Pipe.join(steps)(_, next)
processNext(remainingHandlers, next, ev, beh, tr) ==
  IF Len(remainingHandlers) = 0
    THEN IF next.k # "undefined"
           THEN CallNext(next, ev, beh,
                         Append(tr, [op |-> "next", by |-> "join", event |-> ev]))
           ELSE Return(Void, tr)
    ELSE LET nextHandler == remainingHandlers[1]
             newRemaining == Tail(remainingHandlers)
         IN  RunPipe(nextHandler, ev, ProcessNextOf(newRemaining, next), beh, tr)

\* pipe(ev, next) for any pipe; the step's entry is recorded in the trace.
RunPipe(pipe, ev, next, beh, tr) ==
  LET entered == Append(tr, [op |-> "step", kind |-> pipe.kind,
                             name |-> pipe.name, event |-> ev])
  IN  CASE pipe.kind = "router" ->
             router(pipe.name, pipe.routes, ev, next, beh, entered)
        [] pipe.kind = "tracer"    -> tracer(pipe.name, ev, next, beh, entered)
        [] pipe.kind = "doNothing" -> doNothing(pipe.name, ev, next, beh, entered)
        [] pipe.kind = "final"     -> finalStep(pipe.name, ev, next, beh, entered)
        [] pipe.kind = "rewrite"   -> rewriteStep(pipe.name, ev, next, beh, entered)
        [] pipe.kind = "join"      ->
             processNext(pipe.steps, next, ev, beh, entered)

\* A toHandler that passes no terminal continuation.
toHandlerWithoutTerminal(pipe, ev, beh) == RunPipe(pipe, ev, NoNext, beh, <<>>)

\* Pipe.toHandler(pipe)(ev)
toHandler(pipe, ev, beh) == RunPipe(pipe, ev, Thrower, beh, <<>>)

\* Pipe.join(steps)
join(steps) == [kind |-> "join", name |-> "join", steps |-> steps]

\* Pipe.router(routes)
RouterPipe(routes, name) == [kind |-> "router", name |-> name, routes |-> routes]

\* Pipe.tracer(logger), Pipe.doNothing() and a caller's final step.
TracerPipe(name) == [kind |-> "tracer", name |-> name]
DoNothingPipe(name) == [kind |-> "doNothing", name |-> name]
FinalPipe(name) == [kind |-> "final", name |-> name]
RewritePipe(name) == [kind |-> "rewrite", name |-> name]

\* Handler.router(routes) and Handler.pipe(steps), as the pipe wrapped.
HandlerRouter(routes) == RouterPipe(routes, "A")
HandlerPipe(steps) == join(steps)

\* An adapter that hands a failure to the host as if it were the result.
reportErrorAsResult(promish, host) ==
  CASE promish.kind = "promise" ->
         Catch(Then(promish, CallbackReaction(host)), CallbackReaction(host))
    [] promish.kind = "value" ->
         callback2(host, Null, promish.val, promish.trace)
    [] promish.kind = "throw" ->
         callback2(host, Null, promish.val, promish.trace)

\* The body of lambdaFromHandler(handler)(ev, context, callback) once
\* handler(ev) has completed as promish.  The call callback(null, promish)
\* is inside the try, so that what it throws is caught and reported too;
\* the call in the catch block is not.
reportToCallback(promish, host) ==
  CASE promish.kind = "promise" ->
         Catch(Then(promish, CallbackReaction(host)), CatchReaction(host))
    [] promish.kind = "value" ->
         LET c == callback2(host, Null, promish.val, promish.trace)
         IN  IF c.kind = "throw" THEN callback1(host, c.val, c.trace) ELSE c
    [] promish.kind = "throw" -> callback1(host, promish.val, promish.trace)

\* lambdaFromHandler(handler)(ev, context, callback)
lambdaFromHandler(h, ev, beh, host) ==
  reportToCallback(toHandler(h, ev, beh), host)

\* Lambda.handler(h), Lambda.router(routes) and Lambda.pipe(steps).
LambdaHandler(h) == [kind |-> "lambda", name |-> "lambda", handler |-> h]
LambdaRouter(routes) == LambdaHandler(HandlerRouter(routes))
LambdaPipe(steps) == LambdaHandler(HandlerPipe(steps))

----------------------------------------------------------------------------
(* Inputs *)

\* f with the keys of g added or replaced.
Merge(f, g) ==
  [k \in DOMAIN f \cup DOMAIN g |-> IF k \in DOMAIN g THEN g[k] ELSE f[k]]

\* Session attributes arrive as parsed JSON, which holds no undefined.
AttributeBags ==
  {EmptyObj, [other |-> "x"]}
    \cup {Assign(EmptyObj, sessionStateKey, v) : v \in StateValues \ {UNDEF}}

Sessions ==
  {[sessionId |-> "s"]}
    \cup {[sessionId |-> "s", attributes |-> a] : a \in AttributeBags}

IntentNames == {"AMAZON.StopIntent", "OrderPizza", "Unlisted"}

Requests ==
  {[type |-> "LaunchRequest"], [type |-> "SessionEndedRequest"]}
    \cup {[type |-> "IntentRequest", intent |-> [name |-> n]] : n \in IntentNames}
    \cup {[type |-> "IntentRequest",
           intent |-> [name |-> "OrderPizza",
                       slots |-> [slot0 |-> [name |-> "size",
                                             value |-> "large"]]]]}

Events == {[session |-> s, request |-> r] : s \in Sessions, r \in Requests}

TextHi == [Text |-> "hi"]

\* Handler results (Response<State>).
Outputs ==
  {[Say |-> say] : say \in {TextHi, [SSML |-> "<speak>hi</speak>"], EmptyObj}}
    \cup {[Say |-> TextHi, NewState |-> n] : n \in StateValues}
    \cup {[Say |-> TextHi, EndSession |-> TRUE],
          [Say |-> TextHi, Reprompt |-> [Text |-> "again"]],
          [Say |-> TextHi, Reprompt |-> EmptyObj],
          [Say |-> TextHi, Card |-> [Type |-> "LinkAccount"]],
          [Say |-> TextHi,
           Card |-> [Type |-> "Card", Title |-> "t", Content |-> "c"]],
          [Say |-> TextHi, NewState |-> "step2", EndSession |-> FALSE,
           Card |-> [Type |-> "Card", Title |-> "t", Content |-> "c",
                     Image |-> [SmallUrl |-> "s", LargeUrl |-> "l"]]]}

Modes == {"sync", "async", "throw", "reject"}

Behaviours ==
  {[mode |-> m, result |-> o] : m \in {"sync", "async"}, o \in Outputs}
    \cup {[mode |-> m, result |-> Void] : m \in {"throw", "reject"}}

\* Standard and Custom of Routes<State>; a handler is named by where it was
\* registered.
RouteTables ==
  {EmptyObj,
   [Standard |-> [Stop |-> "Standard.Stop"]],
   [Standard |-> [Stop |-> "Standard.Stop"],
    Custom |-> << <<"AMAZON.StopIntent", "Custom[1]">>,
                  <<"OrderPizza", "Custom[2]">> >>],
   [Standard |-> EmptyObj,
    Custom |-> << <<"AMAZON.StopIntent", "Custom[1]">>,
                  <<"OrderPizza", "Custom[2]">>,
                  <<"OrderPizza", "Custom[3]">> >>]}

InitialStates == {UNDEF, "", "start"}

RoutesSet ==
  {Merge(Merge(Merge([InitialState |-> i], l), e), t) :
     i \in InitialStates,
     l \in {EmptyObj, [Launch |-> "Launch"]},
     e \in {EmptyObj, [SessionEnded |-> "SessionEnded"]},
     t \in RouteTables}

\* The handlers under test: Handler.router(routes) and
\* Handler.pipe([Pipe.tracer(logger), Pipe.router(routes)]).
Handlers ==
  {HandlerRouter(r) : r \in RoutesSet}
    \cup {HandlerPipe(<<TracerPipe("A"), RouterPipe(r, "B")>>) :
            r \in RoutesSet}

----------------------------------------------------------------------------
(* The state machine *)

NoEvent == [none |-> TRUE]
NoBehaviour == [mode |-> "none", result |-> Void]
NoOutcome == [kind |-> "none", settle |-> "na", val |-> Void, chain |-> <<>>]
NoTurn == [none |-> TRUE]
NoCalls == <<>>

\* A completion without its trace, which is kept in the variable trace.
OutcomeOf(c) ==
  [kind |-> c.kind, settle |-> c.settle, val |-> c.val, chain |-> c.chain]

PhaseAfter(c) == IF c.kind = "promise" THEN "pending" ELSE "done"

\* The invocation is over and produced a response body with session
\* attributes.
Responded ==
  /\ phase = "done"
  /\ outcome.kind = "value" \/ (outcome.kind = "promise" /\ outcome.settle = "fulfil")
  /\ "sessionAttributes" \in DOMAIN outcome.val

\* JSON.parse(JSON.stringify(obj)) by the host between turns: a property
\* whose value is undefined is left out.
JsonRoundTrip(obj) == [k \in {j \in DOMAIN obj : obj[j] # UNDEF} |-> obj[k]]

InitWith(H) ==
  /\ handler \in H
  /\ phase = "idle"
  /\ event = NoEvent
  /\ behaviour = NoBehaviour
  /\ returned = NoOutcome
  /\ outcome = NoOutcome
  /\ trace = <<>>
  /\ fedBack = FALSE
  /\ prevTurn = NoTurn
  /\ calls = NoCalls

\* handler(ev): the synchronous part of an invocation.
Start(ev, beh) ==
  LET c == toHandler(handler, ev, beh)
  IN  /\ event' = ev
      /\ behaviour' = beh
      /\ returned' = OutcomeOf(c)
      /\ outcome' = OutcomeOf(c)
      /\ trace' = c.trace
      /\ phase' = PhaseAfter(c)
      /\ UNCHANGED <<handler, calls>>

\* A request whose session is a new one, or whose attributes are any.
Invoke(E, B) ==
  /\ phase = "idle"
  /\ \E ev \in E, beh \in B : Start(ev, beh)
  /\ fedBack' = FALSE
  /\ prevTurn' = NoTurn

\* The next turn of a session: the host sends back the session attributes
\* of the response.
InvokeNextTurn(E, B) ==
  /\ Responded
  /\ "request" \in DOMAIN event
  /\ \E ev \in E, beh \in B :
       /\ "attributes" \in DOMAIN ev.session
       /\ ev.session.attributes = JsonRoundTrip(outcome.val.sessionAttributes)
       /\ Start(ev, beh)
  /\ fedBack' = TRUE
  /\ prevTurn' = [sessionAttributes |-> outcome.val.sessionAttributes,
                  result |-> behaviour.result]

\* What one promise reaction job makes of a pending promise: the head of
\* the chain reacts to the settlement.  An onFulfilled is called on a
\* fulfilment and an onRejected on a rejection; the other settlement passes
\* it by.  What the reaction returns or throws settles the promise anew.
React(promise) ==
  LET onFulfilled == Head(promise.chain)
      c == CallReaction(onFulfilled, promise.val, promise.trace)
  IN  IF (promise.settle = "fulfil") # OnRejected(onFulfilled)
        THEN [promise EXCEPT
                !.chain = Tail(@),
                !.val = c.val,
                !.settle = CASE c.kind = "value" -> "fulfil"
                             [] c.kind = "throw" -> "reject"
                             [] c.kind = "promise" -> c.settle,
                !.trace = c.trace]
        ELSE [promise EXCEPT !.chain = Tail(@)]

\* One promise reaction job of the invocation.
RunReaction ==
  /\ phase = "pending"
  /\ outcome.chain # <<>>
  /\ LET c == React(Assign(outcome, "trace", trace))
     IN  /\ outcome' = OutcomeOf(c)
         /\ trace' = c.trace
  /\ UNCHANGED <<handler, phase, event, behaviour, returned, fedBack, prevTurn,
                 calls>>

\* The returned promise settles.
Settle ==
  /\ phase = "pending"
  /\ outcome.chain = <<>>
  /\ phase' = "done"
  /\ UNCHANGED <<handler, event, behaviour, returned, outcome, trace, fedBack,
                 prevTurn, calls>>

\* A direct use of PromiseOrValue.map on an input and a transform.
MapInputs ==
  {Return(Void, <<>>), Return([t |-> "v"], <<>>),
   Deferred("fulfil", [t |-> "v"], <<>>),
   Deferred("reject", Error("original failed"), <<>>)}

ApplyMap ==
  /\ phase = "idle"
  /\ \E input \in MapInputs, mode \in Modes :
       LET c == PromiseOrValueMap(input, TransformReaction(mode))
       IN  /\ event' = [map |-> TRUE, input |-> OutcomeOf(input), mode |-> mode]
           /\ returned' = OutcomeOf(c)
           /\ outcome' = OutcomeOf(c)
           /\ trace' = c.trace
           /\ phase' = PhaseAfter(c)
  /\ behaviour' = NoBehaviour
  /\ fedBack' = FALSE
  /\ prevTurn' = NoTurn
  /\ UNCHANGED <<handler, calls>>

Init == InitWith(Handlers)

\* One invocation of a handler, or one use of PromiseOrValue.map.
Next ==
  \/ Invoke(Events, Behaviours)
  \/ RunReaction
  \/ Settle
  \/ ApplyMap

Spec == Init /\ [][Next]_vars

\* A session: turn after turn against one router, each request carrying the
\* session attributes of the previous response.
SessionRoutes ==
  {[InitialState |-> i, Launch |-> "Launch",
    Custom |-> << <<"OrderPizza", "Custom[1]">> >>] : i \in InitialStates}

SessionHandlers == {HandlerRouter(r) : r \in SessionRoutes}

SessionEvents ==
  {ev \in Events :
     \/ ev.request.type = "LaunchRequest"
     \/ /\ ev.request.type = "IntentRequest"
        /\ "slots" \notin DOMAIN ev.request.intent
        /\ ev.request.intent.name \in {"OrderPizza", "Unlisted"}}

\* The handlers of a session answer with speech alone or with a replacement
\* state that is a value.
SessionBehaviours ==
  {b \in Behaviours :
     /\ DOMAIN b.result \subseteq {"t", "Say", "NewState"}
     /\ "NewState" \in DOMAIN b.result => b.result.NewState # UNDEF}

InitSession == InitWith(SessionHandlers)

NextSession ==
  \/ Invoke(SessionEvents, SessionBehaviours)
  \/ InvokeNextTurn(SessionEvents, SessionBehaviours)
  \/ RunReaction
  \/ Settle

SpecSession == InitSession /\ [][NextSession]_vars

\* Pipelines: Handler.pipe(steps) for every list of at most MaxSteps steps
\* drawn from two routers, the tracer, doNothing and a caller's final step,
\* and Handler.router of either router.
MaxSteps == 3

StepName(i) == <<"A", "B", "C", "D", "E">>[i]

PipeRoutes1 ==
  [InitialState |-> "start", Launch |-> "Launch",
   Standard |-> [Stop |-> "Standard.Stop"]]

PipeRoutes2 ==
  [InitialState |-> "", SessionEnded |-> "SessionEnded",
   Custom |-> << <<"OrderPizza", "Custom[1]">> >>]

StepKinds == {"router1", "router2", "tracer", "doNothing", "final"}

StepOf(kind, name) ==
  CASE kind = "router1"   -> RouterPipe(PipeRoutes1, name)
    [] kind = "router2"   -> RouterPipe(PipeRoutes2, name)
    [] kind = "tracer"    -> TracerPipe(name)
    [] kind = "doNothing" -> DoNothingPipe(name)
    [] kind = "final"     -> FinalPipe(name)
    [] kind = "rewrite"   -> RewritePipe(name)

StepLists ==
  {[i \in DOMAIN kinds |-> StepOf(kinds[i], StepName(i))] :
     kinds \in UNION {[1..n -> StepKinds] : n \in 0..MaxSteps}}

PipeHandlers ==
  {HandlerPipe(steps) : steps \in StepLists}
    \cup {HandlerRouter(PipeRoutes1), HandlerRouter(PipeRoutes2)}

PipeEvents ==
  {ev \in Events :
     /\ "attributes" \in DOMAIN ev.session =>
          ev.session.attributes = Assign(EmptyObj, sessionStateKey, "step2")
     /\ ev.request.type = "IntentRequest" =>
          "slots" \notin DOMAIN ev.request.intent}

PipeBehaviours ==
  {b \in Behaviours :
     b.result \in {Void, [Say |-> TextHi], [Say |-> TextHi, NewState |-> ""]}}

InitPipe == InitWith(PipeHandlers)

NextPipe ==
  \/ Invoke(PipeEvents, PipeBehaviours)
  \/ RunReaction
  \/ Settle

SpecPipe == InitPipe /\ [][NextPipe]_vars

\* Direct calls Pipe.join(steps)(ev, next) and Pipe.join(steps)(ev): every
\* list of at most MaxSteps steps, a rewriting step among the kinds, with the
\* caller's next or with none.
JoinStepKinds == StepKinds \cup {"rewrite"}

JoinStepLists ==
  {[i \in DOMAIN kinds |-> StepOf(kinds[i], StepName(i))] :
     kinds \in UNION {[1..n -> JoinStepKinds] : n \in 0..MaxSteps}}

JoinCalls ==
  {Assign(join(steps), "next", next) :
     steps \in JoinStepLists, next \in {External, NoNext}}

\* Pipe.join(steps)(ev, next): the synchronous part of the call.
InvokeJoin(E, B) ==
  /\ phase = "idle"
  /\ \E ev \in E, beh \in B :
       LET c == RunPipe(handler, ev, handler.next, beh, <<>>)
       IN  /\ event' = ev
           /\ behaviour' = beh
           /\ returned' = OutcomeOf(c)
           /\ outcome' = OutcomeOf(c)
           /\ trace' = c.trace
           /\ phase' = PhaseAfter(c)
  /\ fedBack' = FALSE
  /\ prevTurn' = NoTurn
  /\ UNCHANGED <<handler, calls>>

InitJoin == InitWith(JoinCalls)

NextJoin ==
  \/ InvokeJoin(PipeEvents, PipeBehaviours)
  \/ RunReaction
  \/ Settle

SpecJoin == InitJoin /\ [][NextJoin]_vars

\* One handler, built once, invoked twice: the second invocation may start
\* while the first is waiting for a promise, and the reaction jobs of the two
\* run in any order.
Slots == {"first", "second"}

ConcurrentHandlers ==
  {HandlerPipe(<<TracerPipe("A"), RouterPipe(r, "B")>>) :
     r \in {PipeRoutes1, PipeRoutes2}}
    \cup {HandlerPipe(<<TracerPipe("A"), RouterPipe(PipeRoutes1, "B"),
                       RouterPipe(PipeRoutes2, "C")>>)}

IdleCall ==
  [phase |-> "idle", event |-> NoEvent, behaviour |-> NoBehaviour,
   returned |-> NoOutcome, outcome |-> NoOutcome, trace |-> <<>>,
   ran |-> NoEvent]

\* A handler whose join takes each step it runs off the list it was built
\* with (remainingHandlers.shift() on steps itself).
afterInvocationShifting(h, c) ==
  LET entered == SelectSeq(c.trace,
                           LAMBDA e : e.op = "step" /\ e.kind # "join")
  IN  IF h.kind = "join"
        THEN [h EXCEPT !.steps = SubSeq(@, Len(entered) + 1, Len(@))]
        ELSE h

\* What an invocation that completed as c leaves of the handler h it ran:
\* steps is only read (slice copies it), and so are the routes and the Maps
\* the router built from them.
afterInvocation(h, c) == h

\* handler(ev), by the host, for the call in slot s.
InvokeCall(E, B) ==
  /\ \E s \in Slots, ev \in E, beh \in B :
       LET c == toHandler(handler, ev, beh)
       IN  /\ calls[s].phase = "idle"
           /\ s = "second" => calls["first"].phase # "idle"
           /\ calls' = [calls EXCEPT ![s] =
                          [phase |-> PhaseAfter(c), event |-> ev,
                           behaviour |-> beh, returned |-> OutcomeOf(c),
                           outcome |-> OutcomeOf(c), trace |-> c.trace,
                           ran |-> handler]]
           /\ handler' = afterInvocation(handler, c)
  /\ UNCHANGED <<phase, event, behaviour, returned, outcome, trace, fedBack,
                 prevTurn>>

\* One promise reaction job of either call.
ReactCall ==
  /\ \E s \in Slots :
       /\ calls[s].phase = "pending"
       /\ calls[s].outcome.chain # <<>>
       /\ LET c == React(Assign(calls[s].outcome, "trace", calls[s].trace))
          IN  calls' = [calls EXCEPT ![s].outcome = OutcomeOf(c),
                                     ![s].trace = c.trace]
  /\ UNCHANGED <<handler, phase, event, behaviour, returned, outcome, trace,
                 fedBack, prevTurn>>

\* The promise of either call settles.
SettleCall ==
  /\ \E s \in Slots :
       /\ calls[s].phase = "pending"
       /\ calls[s].outcome.chain = <<>>
       /\ calls' = [calls EXCEPT ![s].phase = "done"]
  /\ UNCHANGED <<handler, phase, event, behaviour, returned, outcome, trace,
                 fedBack, prevTurn>>

InitConcurrent ==
  /\ handler \in ConcurrentHandlers
  /\ phase = "idle"
  /\ event = NoEvent
  /\ behaviour = NoBehaviour
  /\ returned = NoOutcome
  /\ outcome = NoOutcome
  /\ trace = <<>>
  /\ fedBack = FALSE
  /\ prevTurn = NoTurn
  /\ calls = [s \in Slots |-> IdleCall]

NextConcurrent ==
  \/ InvokeCall(PipeEvents, PipeBehaviours)
  \/ ReactCall
  \/ SettleCall

SpecConcurrent == InitConcurrent /\ [][NextConcurrent]_vars

\* Lambda entry points: Lambda.pipe(steps) and Lambda.router(routes) of the
\* same pipelines and routers, called by a host that passes its callback.
LambdaHandlers ==
  {LambdaPipe(steps) : steps \in StepLists}
    \cup {LambdaRouter(PipeRoutes1), LambdaRouter(PipeRoutes2)}

\* lambda(ev, context, callback): the synchronous part of an invocation.
InvokeLambda(E, B) ==
  /\ phase = "idle"
  /\ \E ev \in E, beh \in B, host \in Hosts :
       LET promish == toHandler(handler.handler, ev, beh)
           c == lambdaFromHandler(handler.handler, ev, beh, host)
       IN  /\ event' = ev
           /\ behaviour' = Assign(beh, "callback", host)
           /\ returned' = OutcomeOf(promish)
           /\ outcome' = OutcomeOf(c)
           /\ trace' = c.trace
           /\ phase' = PhaseAfter(c)
  /\ fedBack' = FALSE
  /\ prevTurn' = NoTurn
  /\ UNCHANGED <<handler, calls>>

InitLambda == InitWith(LambdaHandlers)

NextLambda ==
  \/ InvokeLambda(PipeEvents, PipeBehaviours)
  \/ RunReaction
  \/ Settle

SpecLambda == InitLambda /\ [][NextLambda]_vars

----------------------------------------------------------------------------
(* Properties *)

\* An invocation of the handler has been made (and not a bare use of map).
Invoked == phase # "idle" /\ "request" \in DOMAIN event

TraceIdx(op) == {i \in DOMAIN trace : trace[i].op = op}

\* The trace entries at which a router step was entered.
RouterEntries == {i \in TraceIdx("step") : trace[i].kind = "router"}

\* The calls a step made, by the name of the step.
NextCallsBy(name) == {i \in TraceIdx("next") : trace[i].by = name}
HandlerCallsBy(name) ==
  {i \in TraceIdx("handler") \cup TraceIdx("SessionEnded") : trace[i].by = name}

\* The step of the handler under test that has the given name.
StepNamed(name) ==
  IF handler.kind = "join"
    THEN handler.steps[CHOOSE i \in DOMAIN handler.steps :
                         handler.steps[i].name = name]
    ELSE handler

\* The steps of the handler under test: those of the pipeline, or the router
\* alone.
StepsOfHandler == IF handler.kind = "join" THEN handler.steps ELSE <<handler>>

\* The steps of a pipeline without the step of the given name.
StepsWithout(name) ==
  SelectSeq(StepsOfHandler, LAMBDA step : step.name # name)

StandardNames(routes) ==
  IF "Standard" \in DOMAIN routes
    THEN {StandardName(key) : key \in DOMAIN routes.Standard} ELSE {}

CustomNames(routes) ==
  IF "Custom" \in DOMAIN routes
    THEN {routes.Custom[i][1] : i \in DOMAIN routes.Custom} ELSE {}

\* The request has no matching branch in a router with these routes.
NoMatch(routes, ev) ==
  \/ ev.request.type = "LaunchRequest" /\ "Launch" \notin DOMAIN routes
  \/ ev.request.type = "SessionEndedRequest" /\ "SessionEnded" \notin DOMAIN routes
  \/ /\ ev.request.type = "IntentRequest"
     /\ ev.request.intent.name \notin StandardNames(routes)
     /\ ev.request.intent.name \notin CustomNames(routes)

\* C1: a router entered with a request that matches none of its branches
\* calls its continuation exactly once, as its next action, with the request
\* of the invocation unmodified, calls no handler, and what the pipeline
\* returns is what it returns without that router.
C1_FallThrough ==
  Invoked =>
    \A i \in RouterEntries :
      LET name == trace[i].name
      IN  NoMatch(StepNamed(name).routes, trace[i].event) =>
            /\ trace[i].event = event
            /\ i + 1 \in DOMAIN trace
            /\ trace[i + 1] = [op |-> "next", by |-> name, event |-> event]
            /\ NextCallsBy(name) = {i + 1}
            /\ HandlerCallsBy(name) = {}
            /\ returned =
                 OutcomeOf(toHandler(join(StepsWithout(name)), event, behaviour))

\* A router that matched nothing, followed by a step that answered.
C1_Witness ==
  /\ Invoked
  /\ phase = "done"
  /\ returned.kind = "value"
  /\ returned.val = FinalBody
  /\ \E i \in RouterEntries :
       /\ NoMatch(StepNamed(trace[i].name).routes, trace[i].event)
       /\ event.request.type = "IntentRequest"

\* The router of the handler under test (Spec, SpecSession): the handler
\* itself, or the step after the tracer.
TheRouter == IF handler.kind = "router" THEN handler ELSE handler.steps[2]

HandlerCalls == TraceIdx("handler")

KeyStored(ev) ==
  /\ "attributes" \in DOMAIN ev.session
  /\ sessionStateKey \in DOMAIN ev.session.attributes

\* The state persisted by a response body: the value under the reserved key
\* of its session attributes, undefined when there is none.
Persisted(body) ==
  IF sessionStateKey \in DOMAIN body.sessionAttributes
    THEN body.sessionAttributes[sessionStateKey]
    ELSE UNDEF

\* C2: a handler is invoked with the value stored under the reserved key
\* whenever the key is present in the inbound session attributes, and with
\* InitialState only when it is absent.
C2_StoredStateWins ==
  Invoked =>
    \A i \in HandlerCalls :
      trace[i].state =
        IF KeyStored(event)
          THEN event.session.attributes[sessionStateKey]
          ELSE TheRouter.routes.InitialState

\* C3: when the handler's result has no NewState, the state persisted by the
\* response is the state the handler was invoked with.
C3_StateThreading ==
  (Responded /\ "NewState" \notin DOMAIN behaviour.result) =>
    \A i \in HandlerCalls : Persisted(outcome.val) = trace[i].state

\* A stored state threaded through a turn, and the initial state threaded
\* through a turn without session attributes.
C3_Witness ==
  /\ Responded
  /\ "NewState" \notin DOMAIN behaviour.result
  /\ HandlerCalls # {}
  /\ TheRouter.routes.InitialState = "start"
  /\ KeyStored(event)
  /\ Persisted(outcome.val) = "step2"

\* C4 as claimed: every response built from a handler result carries the
\* reserved key, holding NewState if supplied and otherwise the handler's
\* state.
C4_AlwaysPersisted ==
  Responded =>
    \A i \in HandlerCalls :
      /\ sessionStateKey \in DOMAIN outcome.val.sessionAttributes
      /\ outcome.val.sessionAttributes[sessionStateKey] =
           IF "NewState" \in DOMAIN behaviour.result
             THEN behaviour.result.NewState ELSE trace[i].state

\* C4 as amended: the response carries the reserved key whenever the handler
\* supplied NewState or was invoked with a state that is not undefined, and
\* then it holds NewState if supplied and otherwise that state; otherwise the
\* session attributes are the empty object.
C4_PersistedUnlessUndefined ==
  Responded =>
    \A i \in HandlerCalls :
      IF "NewState" \in DOMAIN behaviour.result
        THEN outcome.val.sessionAttributes =
               Assign(EmptyObj, sessionStateKey, behaviour.result.NewState)
      ELSE IF trace[i].state # UNDEF
        THEN outcome.val.sessionAttributes =
               Assign(EmptyObj, sessionStateKey, trace[i].state)
      ELSE outcome.val.sessionAttributes = EmptyObj

\* A response that re-persists the state passed in, after a deferred result.
C4_Witness ==
  /\ Responded
  /\ behaviour.mode = "async"
  /\ "NewState" \notin DOMAIN behaviour.result
  /\ \E i \in HandlerCalls : trace[i].state = "start"
  /\ outcome.val.sessionAttributes = Assign(EmptyObj, sessionStateKey, "start")

\* C5: a NewState supplied by the handler is what the response persists, and
\* is the state the handler of the next turn is invoked with.
C5_ReplacementState ==
  /\ (Responded /\ "NewState" \in DOMAIN behaviour.result) =>
       \A i \in HandlerCalls :
         /\ sessionStateKey \in DOMAIN outcome.val.sessionAttributes
         /\ outcome.val.sessionAttributes[sessionStateKey] =
              behaviour.result.NewState
  /\ (Invoked /\ fedBack /\ "NewState" \in DOMAIN prevTurn.result) =>
       \A i \in HandlerCalls : trace[i].state = prevTurn.result.NewState

\* The key of Routes.Standard that yields the given intent name.
StandardKey(routes, name) ==
  CHOOSE key \in DOMAIN routes.Standard : StandardName(key) = name

\* C6: for an IntentRequest whose name is bound in the standard table the
\* router calls the standard handler, and it alone, whatever the custom table
\* holds; no request makes a router call more than one handler.
C6_StandardFirst ==
  Invoked =>
    /\ \A i \in RouterEntries :
         LET name == trace[i].name
             routes == StepNamed(name).routes
         IN  /\ Cardinality(HandlerCallsBy(name)) <= 1
             /\ ( /\ event.request.type = "IntentRequest"
                  /\ event.request.intent.name \in StandardNames(routes) ) =>
                   /\ HandlerCallsBy(name) = {i + 1}
                   /\ trace[i + 1].op = "handler"
                   /\ trace[i + 1].id =
                        routes.Standard[StandardKey(routes, event.request.intent.name)]
                   /\ NextCallsBy(name) = {}
    /\ Cardinality(TraceIdx("handler") \cup TraceIdx("SessionEnded")) <= 1

\* AMAZON.StopIntent with Standard.Stop configured and a custom entry of the
\* same name: the standard handler ran.
C6_Witness ==
  /\ Invoked
  /\ phase = "done"
  /\ event.request.type = "IntentRequest"
  /\ event.request.intent.name = "AMAZON.StopIntent"
  /\ "AMAZON.StopIntent" \in StandardNames(TheRouter.routes)
  /\ "AMAZON.StopIntent" \in CustomNames(TheRouter.routes)
  /\ \E i \in HandlerCalls : trace[i].id = "Standard.Stop"

Entered(name) == \E i \in TraceIdx("step") : trace[i].name = name

\* C7: in a pipeline composed by join, once a step has run without calling
\* its continuation, no later step runs and the terminal continuation is not
\* called.
C7_ShortCircuit ==
  (Invoked /\ handler.kind = "join") =>
    \A k \in DOMAIN handler.steps :
      (Entered(handler.steps[k].name) /\ NextCallsBy(handler.steps[k].name) = {}) =>
        /\ \A m \in DOMAIN handler.steps :
             m > k => ~Entered(handler.steps[m].name)
        /\ NextCallsBy("join") = {}
        /\ TraceIdx("thrower") = {}

\* Steps [A, B, C] where A answered by itself: only A ran.
C7_Witness ==
  /\ Invoked
  /\ phase = "done"
  /\ handler.kind = "join"
  /\ Len(handler.steps) = 3
  /\ handler.steps[1].kind = "final"
  /\ handler.steps[2].kind = "router"
  /\ Entered("A") /\ ~Entered("B") /\ ~Entered("C")
  /\ returned.val = FinalBody

\* Every step of the handler under test ran and called its continuation.
AllDeclined ==
  \A k \in DOMAIN StepsOfHandler :
    Entered(StepsOfHandler[k].name) /\ NextCallsBy(StepsOfHandler[k].name) # {}

\* C8: when every step of a handler built by toHandler passes the request
\* on, the invocation throws the error 'Event unhandled'.
C8_Unhandled ==
  (Invoked /\ AllDeclined) =>
    /\ returned.kind = "throw"
    /\ returned.val = Error("Event unhandled")
    /\ phase = "done"

\* Handler.router of a router without a Stop handler, given AMAZON.StopIntent.
C8_Witness ==
  /\ Invoked
  /\ handler.kind = "router"
  /\ "AMAZON.StopIntent" \notin StandardNames(handler.routes)
  /\ event.request.type = "IntentRequest"
  /\ event.request.intent.name = "AMAZON.StopIntent"
  /\ returned.kind = "throw"
  /\ returned.val = Error("Event unhandled")

\* PromiseOrValue.map has been applied to event.input with a transform of
\* mode event.mode.
MapApplied == phase # "idle" /\ "map" \in DOMAIN event

\* What a transform of the given mode makes of the value v, as a completion
\* without trace.
TransformResult(mode, v) ==
  CASE mode = "sync"   -> OutcomeOf(Return(Mapped(v), <<>>))
    [] mode = "async"  -> OutcomeOf(Deferred("fulfil", Mapped(v), <<>>))
    [] mode = "throw"  -> OutcomeOf(Throw(TransformError, <<>>))
    [] mode = "reject" -> OutcomeOf(Deferred("reject", TransformError, <<>>))

\* C9: map on an immediate value calls the transform at once and returns the
\* transform's own result; map on a promise returns a promise, calls the
\* transform only when the promise has fulfilled, and that promise settles as
\* the transform of the fulfilment value does; a rejection of the original
\* passes through unchanged, the transform not being called.
C9_MapPreservesImmediacy ==
  MapApplied =>
    LET input == event.input
        called == [op |-> "transform", arg |-> input.val]
    IN  IF input.kind = "value"
          THEN /\ returned = TransformResult(event.mode, input.val)
               /\ trace = <<called>>
          ELSE /\ returned.kind = "promise"
               /\ outcome.kind = "promise"
               /\ outcome.chain # <<>> => trace = <<>>
               /\ phase = "done" =>
                    IF input.settle = "reject"
                      THEN /\ outcome.settle = "reject"
                           /\ outcome.val = input.val
                           /\ trace = <<>>
                      ELSE /\ trace = <<called>>
                           /\ outcome.settle =
                                IF event.mode \in {"sync", "async"}
                                  THEN "fulfil" ELSE "reject"
                           /\ outcome.val =
                                TransformResult(event.mode, input.val).val

\* A promise mapped by a transform that returns a value: settled with the
\* transform of the fulfilment value.
C9_Witness ==
  /\ MapApplied
  /\ phase = "done"
  /\ event.input.kind = "promise"
  /\ event.input.settle = "fulfil"
  /\ event.mode = "sync"
  /\ outcome.settle = "fulfil"
  /\ outcome.val = Mapped(event.input.val)

\* The envelope for a handler result that is speech alone, {Say: {Text: t}},
\* with the given state passed to the handler.
TextEnvelope(text, state) ==
  [version |-> "1.0",
   response |-> [outputSpeech |-> [type |-> "PlainText", text |-> text],
                 shouldEndSession |-> FALSE],
   sessionAttributes |->
     IF state = UNDEF THEN EmptyObj
     ELSE [key \in {"_alexaTsState"} |-> state]]

\* The state a router derives for a request whose stored state, if any, is
\* not falsy (the falsy case is the matter of C2).
StoredOrInitial(routes, ev) ==
  IF KeyStored(ev) THEN ev.session.attributes["_alexaTsState"]
  ELSE routes.InitialState

\* C10: for a LaunchRequest a router with a Launch handler calls that handler
\* once, with the state it derived (the stored state, or InitialState when
\* none is stored) and an empty slot map, does not call its continuation,
\* and returns the assembled envelope: for the result
\* {Say: {Text: "hi"}} the envelope has shouldEndSession false, outputSpeech
\* {type: PlainText, text: "hi"} and the reserved key set to the state.
C10_Launch ==
  (Invoked /\ event.request.type = "LaunchRequest") =>
    \A i \in RouterEntries :
      LET name == trace[i].name
          routes == StepNamed(name).routes
      IN  "Launch" \in DOMAIN routes =>
            /\ HandlerCallsBy(name) = {i + 1}
            /\ trace[i + 1].op = "handler"
            /\ trace[i + 1].id = routes.Launch
            /\ trace[i + 1].slots = EmptyObj
            /\ trace[i + 1].state = deriveState(routes, event)
            /\ (KeyStored(event) => Truthy(getState(event))) =>
                 trace[i + 1].state = StoredOrInitial(routes, event)
            /\ NextCallsBy(name) = {}
            /\ TraceIdx("thrower") = {}
            /\ (Responded /\ behaviour.result = [Say |-> [Text |-> "hi"]]) =>
                 outcome.val = TextEnvelope("hi", trace[i + 1].state)

\* The scenario: InitialState "start", no session attributes, the Launch
\* handler returns {Say: {Text: "hi"}}.
C10_Witness ==
  /\ Invoked
  /\ phase = "done"
  /\ handler.kind = "router"
  /\ handler.routes.InitialState = "start"
  /\ "attributes" \notin DOMAIN event.session
  /\ event.request.type = "LaunchRequest"
  /\ behaviour = [mode |-> "sync", result |-> [Say |-> [Text |-> "hi"]]]
  /\ returned.kind = "value"
  /\ returned.val.response.shouldEndSession = FALSE
  /\ returned.val.response.outputSpeech = [type |-> "PlainText", text |-> "hi"]
  /\ returned.val.sessionAttributes = [key \in {"_alexaTsState"} |-> "start"]

----------------------------------------------------------------------------
(* The Lambda boundary *)

\* The calls of the host callback made so far.
CallbackCalls == TraceIdx("callback")

\* The calls of functions the caller supplied: intent and Launch handlers,
\* SessionEnded callbacks and the caller's own steps.
UserCalls ==
  TraceIdx("handler") \cup TraceIdx("SessionEnded") \cup TraceIdx("final")

\* A function the caller supplied was called and failed, by throwing or by
\* returning a promise that rejects.
UserFailed == UserCalls # {} /\ behaviour.mode \in {"throw", "reject"}

\* C11: an error raised by a handler, thrown or delivered through its
\* deferred result, comes out of the router and the pipeline as it was
\* raised (thrown if it was thrown, a rejection if it was deferred), and the
\* Lambda adapter reports that same error as the error argument of the
\* callback, in a call that carries no result; no call of the callback
\* delivers a response.
C11_ErrorReachesCallback ==
  UserFailed =>
    /\ returned.val = HandlerError
    /\ behaviour.mode = "throw" => returned.kind = "throw"
    /\ behaviour.mode = "reject" =>
         returned.kind = "promise" /\ returned.settle = "reject"
    /\ \A i \in CallbackCalls :
         trace[i] = [op |-> "callback", error |-> HandlerError]
    /\ phase = "done" => Cardinality(CallbackCalls) = 1

\* A handler reached through a tracer and a router of a Lambda pipeline
\* rejected its deferred result, and the callback got the error.
C11_Witness ==
  /\ phase = "done"
  /\ handler.kind = "lambda"
  /\ behaviour.mode = "reject"
  /\ \E i \in TraceIdx("step") : trace[i].kind = "tracer"
  /\ TraceIdx("handler") # {}
  /\ \E i \in CallbackCalls :
       trace[i] = [op |-> "callback", error |-> HandlerError]

----------------------------------------------------------------------------
(* Response assembly failures *)

SpeechError == Error("Speech contains neither text nor SSML.")

\* The handler of this invocation returned, at once or deferred, a result
\* whose Say has neither Text nor SSML.
SaidNothing ==
  /\ Invoked
  /\ HandlerCalls # {}
  /\ behaviour.mode \in {"sync", "async"}
  /\ ~Defined(behaviour.result.Say, "SSML")
  /\ ~Defined(behaviour.result.Say, "Text")

\* C12: when a handler's result has a Say with neither plain text nor SSML,
\* assembling the response fails with the error of makeSpeech: the
\* invocation throws it when the handler answered at once and rejects with
\* it when the handler answered through a promise; at no time is there a
\* response envelope or a speech put in the place of the missing one.
C12_SpeechRequired ==
  SaidNothing =>
    /\ "response" \notin DOMAIN outcome.val
    /\ "outputSpeech" \notin DOMAIN outcome.val
    /\ behaviour.mode = "sync" =>
         /\ returned = OutcomeOf(Throw(SpeechError, <<>>))
         /\ outcome = returned
    /\ behaviour.mode = "async" =>
         /\ returned.kind = "promise"
         /\ outcome.settle = "fulfil" => outcome.val = behaviour.result
         /\ phase = "done" =>
              outcome.settle = "reject" /\ outcome.val = SpeechError

\* A handler behind a tracer answered through a promise with an empty Say,
\* and the invocation ended rejected with the speech error.
C12_Witness ==
  /\ SaidNothing
  /\ handler.kind = "join"
  /\ behaviour.mode = "async"
  /\ behaviour.result.Say = EmptyObj
  /\ phase = "done"
  /\ outcome.settle = "reject"
  /\ outcome.val = SpeechError

----------------------------------------------------------------------------
(* State across the turns of a session *)

\* C13: in a session whose requests carry the session attributes of the
\* previous response, a turn whose handler supplies no NewState persists the
\* state that the previous turn persisted, whatever its value.
C13_StateKeptAcrossTurns ==
  (Responded /\ fedBack /\ HandlerCalls # {}
     /\ "NewState" \notin DOMAIN behaviour.result) =>
    Persisted(outcome.val) = Persisted(prevTurn)

----------------------------------------------------------------------------
(* Composition by join *)

\* A direct call of a join has been made.
JoinCalled == phase # "idle" /\ "next" \in DOMAIN handler

\* The entries of the steps of the join, the join's own entry left out.
StepEntries == {i \in TraceIdx("step") : trace[i].kind # "join"}

\* The rank of a step entry among the step entries: 1 for the first step
\* that ran.
Rank(i) == Cardinality({j \in StepEntries : j <= i})

\* C14: the steps of a join run in the order composed.  The k-th step to run
\* is step k of the list; the first gets the request the join was called
\* with; step k+1 is entered right after step k called its continuation, and
\* for no other reason, with the request step k passed; and a call of its
\* continuation by any step but the last enters the step that follows it.
C14_ComposedOrder ==
  JoinCalled =>
    /\ \A i \in StepEntries :
         LET k == Rank(i)
         IN  /\ k <= Len(handler.steps)
             /\ trace[i].name = handler.steps[k].name
             /\ trace[i].kind = handler.steps[k].kind
             /\ k = 1 => i = 2 /\ trace[i].event = event
             /\ k > 1 =>
                  trace[i - 1] = [op |-> "next", by |-> handler.steps[k - 1].name,
                                  event |-> trace[i].event]
    /\ \A k \in 1..(Len(handler.steps) - 1) :
         \A j \in NextCallsBy(handler.steps[k].name) :
           /\ j + 1 \in StepEntries
           /\ Rank(j + 1) = k + 1
           /\ trace[j + 1].event = trace[j].event

\* Three steps ran in order, the first of them passing a changed request on
\* to the second.
C14_Witness ==
  /\ JoinCalled
  /\ phase = "done"
  /\ Cardinality(StepEntries) = 3
  /\ handler.steps[1].kind = "rewrite"
  /\ \E i \in StepEntries :
       /\ trace[i].name = "B"
       /\ trace[i].event = Rewritten(event, "A")
       /\ trace[i].event # event

\* The last step of the join called its continuation (for an empty list,
\* the join was called), and the request it was called with.
LastPassedOn ==
  handler.steps = <<>>
    \/ NextCallsBy(handler.steps[Len(handler.steps)].name) # {}

PassedOn ==
  IF handler.steps = <<>> THEN event
  ELSE trace[CHOOSE j \in NextCallsBy(handler.steps[Len(handler.steps)].name) :
               TRUE].event

\* C15: when the last step of a join calls its continuation, or the list is
\* empty, a next supplied by the caller is called, once, with the request
\* passed on, and the join returns what it returns; when no next was
\* supplied nothing is called and the join returns undefined, at once and
\* without an error.
C15_TerminalNext ==
  (JoinCalled /\ LastPassedOn) =>
    IF handler.next = External
      THEN /\ \E t \in TraceIdx("terminal") :
                /\ TraceIdx("terminal") = {t}
                /\ trace[t] = [op |-> "terminal", event |-> PassedOn]
                /\ trace[t - 1] = [op |-> "next", by |-> "join",
                                   event |-> PassedOn]
           /\ LET c == UserCall([op |-> "terminal"],
                                [behaviour EXCEPT !.result = TerminalBody], <<>>)
              IN  /\ returned.kind = c.kind
                  /\ returned.settle = c.settle
                  /\ returned.val = c.val
                  /\ phase = "done" =>
                       outcome.settle = c.settle /\ outcome.val = c.val
      ELSE /\ TraceIdx("terminal") = {}
           /\ TraceIdx("thrower") = {}
           /\ returned = OutcomeOf(Return(Void, <<>>))
           /\ outcome = returned
           /\ phase = "done"

\* A join called without a next, whose last step is a router that fell
\* through, returned undefined.
C15_Witness ==
  /\ JoinCalled
  /\ LastPassedOn
  /\ handler.next = NoNext
  /\ Len(handler.steps) = 2
  /\ handler.steps[2].kind = "router"
  /\ returned.val = Void

----------------------------------------------------------------------------
(* The end of a session *)

\* The request is a SessionEndedRequest and the router has a SessionEnded
\* callback.
SessionEnding ==
  /\ Invoked
  /\ event.request.type = "SessionEndedRequest"
  /\ "SessionEnded" \in DOMAIN TheRouter.routes

\* C16: for a SessionEndedRequest reaching a router that has a SessionEnded
\* callback, the callback is called exactly once and nothing else is: no
\* intent or Launch handler, not the router's continuation, not the terminal
\* continuation of toHandler.  The invocation yields no response envelope
\* and no 'Event unhandled' error: it yields undefined, at once or through
\* the callback's promise, unless the callback itself fails.
C16_SessionEnded ==
  SessionEnding =>
    /\ Cardinality(TraceIdx("SessionEnded")) = 1
    /\ \A i \in TraceIdx("SessionEnded") :
         trace[i] = [op |-> "SessionEnded", by |-> TheRouter.name]
    /\ TraceIdx("handler") = {}
    /\ NextCallsBy(TheRouter.name) = {}
    /\ TraceIdx("thrower") = {}
    /\ "response" \notin DOMAIN outcome.val
    /\ outcome.val # Error("Event unhandled")
    /\ behaviour.mode = "sync" => returned = OutcomeOf(Return(Void, <<>>))
    /\ behaviour.mode = "async" =>
         /\ returned.kind = "promise"
         /\ outcome.settle = "fulfil"
         /\ outcome.val = Void

\* A SessionEndedRequest was answered by the callback of a router that also
\* has handlers, behind a tracer, and the invocation ended with undefined.
C16_Witness ==
  /\ SessionEnding
  /\ phase = "done"
  /\ handler.kind = "join"
  /\ "Launch" \in DOMAIN TheRouter.routes
  /\ "Custom" \in DOMAIN TheRouter.routes
  /\ behaviour.mode = "async"
  /\ TraceIdx("SessionEnded") # {}
  /\ outcome.val = Void

----------------------------------------------------------------------------
(* The tracer *)

\* A completion followed to its end: a promise after all its reactions.
RECURSIVE Settled(_)
Settled(c) ==
  IF c.kind = "promise" /\ c.chain # <<>> THEN Settled(React(c)) ELSE c

TracerEntries == {i \in TraceIdx("step") : trace[i].kind = "tracer"}

ResponseLogs == {i \in TraceIdx("log") : trace[i].message = "Response:"}

\* The reactions of tracers that are still to run.
PendingLogs == SelectSeq(outcome.chain, LAMBDA r : r = LogReaction)

\* The call of the join with its tracers taken out.
WithoutTracers ==
  RunPipe([handler EXCEPT
             !.steps = SelectSeq(@, LAMBDA step : step.kind # "tracer")],
          event, handler.next, behaviour, <<>>)

\* C17: a tracer logs the request it received and then calls its
\* continuation, once, with that request.  It logs the response only when
\* the continuation's result is there: after the continuation returned a
\* value, after its promise fulfilled when it returned a promise, and not at
\* all when it threw or its promise rejected; what it logs is that result.
\* What the call returns is what it returns without the tracers: a value for
\* a value, a promise for a promise, settled alike.
C17_Tracer ==
  JoinCalled =>
    /\ \A i \in TracerEntries :
         /\ trace[i + 1] = [op |-> "log", message |-> "Request:",
                            obj |-> trace[i].event]
         /\ trace[i + 2] = [op |-> "next", by |-> trace[i].name,
                            event |-> trace[i].event]
         /\ NextCallsBy(trace[i].name) = {i + 2}
    /\ \A l \in ResponseLogs :
         /\ \A j \in DOMAIN trace \ ResponseLogs : j < l
         /\ trace[l].obj = outcome.val
    /\ returned.kind = "throw" => ResponseLogs = {}
    /\ returned.kind = "value" =>
         Cardinality(ResponseLogs) = Cardinality(TracerEntries)
    /\ returned.kind = "promise" =>
         /\ outcome = returned => ResponseLogs = {}
         /\ outcome.settle = "reject" => ResponseLogs = {}
         /\ outcome.settle = "fulfil" =>
              Cardinality(ResponseLogs) + Len(PendingLogs) =
                Cardinality(TracerEntries)
    /\ LET c == WithoutTracers
       IN  /\ returned.kind = c.kind
           /\ returned.settle = c.settle
           /\ returned.val = c.val
           /\ SelectSeq(returned.chain, LAMBDA r : r # LogReaction) = c.chain
           /\ phase = "done" =>
                /\ outcome.settle = Settled(c).settle
                /\ outcome.val = Settled(c).val

\* A tracer in front of a router whose handler answered through a promise:
\* the promise came back at once, and the response was logged when it had
\* fulfilled with the envelope.
C17_Witness ==
  /\ JoinCalled
  /\ phase = "done"
  /\ returned.kind = "promise"
  /\ TracerEntries # {}
  /\ TraceIdx("handler") # {}
  /\ outcome.settle = "fulfil"
  /\ \E l \in ResponseLogs :
       /\ "response" \in DOMAIN trace[l].obj
       /\ trace[l].obj = outcome.val

----------------------------------------------------------------------------
(* Immediate and deferred handlers *)

\* The same invocation with functions that answer at once.
AsSync == toHandler(handler, event, [behaviour EXCEPT !.mode = "sync"])

\* C18: a handler that answers through a promise is treated as one that
\* answers at once.  The calls made, in their order (which handler was
\* chosen, with what state and slots, what fell through), are the calls of
\* the immediate invocation; and the promise returned settles with what the
\* immediate invocation returns: it fulfils with the same envelope, or
\* rejects with the error the immediate invocation throws.
C18_DeferredAsImmediate ==
  (Invoked /\ behaviour.mode = "async") =>
    LET c == AsSync
    IN  /\ Len(trace) <= Len(c.trace)
        /\ trace = SubSeq(c.trace, 1, Len(trace))
        /\ RouterEntries = {i \in DOMAIN c.trace : c.trace[i].op = "step"
                                                   /\ c.trace[i].kind = "router"}
        /\ HandlerCalls = {i \in DOMAIN c.trace : c.trace[i].op = "handler"}
        /\ phase = "done" =>
             /\ trace = c.trace
             /\ outcome.val = c.val
             /\ returned.kind = "promise" =>
                  outcome.settle = IF c.kind = "value" THEN "fulfil" ELSE "reject"
             /\ returned.kind # "promise" => returned = OutcomeOf(c)

\* A handler behind a tracer answered through a promise with a replacement
\* state, and the promise fulfilled with the envelope of the immediate
\* answer.
C18_Witness ==
  /\ Invoked
  /\ behaviour.mode = "async"
  /\ phase = "done"
  /\ handler.kind = "join"
  /\ HandlerCalls # {}
  /\ outcome.settle = "fulfil"
  /\ "NewState" \in DOMAIN behaviour.result
  /\ "sessionAttributes" \in DOMAIN outcome.val
  /\ AsSync.kind = "value"
  /\ outcome.val = AsSync.val

----------------------------------------------------------------------------
(* Invocations under way together *)

Started == {s \in Slots : calls[s].phase # "idle"}

\* The call in slot s made alone, on the handler as the first call found it.
Alone(s) ==
  toHandler(calls["first"].ran, calls[s].event, calls[s].behaviour)

\* The call in slot s ended with a response body that has session attributes.
RespondedIn(s) ==
  /\ calls[s].phase = "done"
  /\ calls[s].outcome.kind = "value"
       \/ (calls[s].outcome.kind = "promise"
             /\ calls[s].outcome.settle = "fulfil")
  /\ "sessionAttributes" \in DOMAIN calls[s].outcome.val

\* The envelope that the request and the handler result of the call in slot
\* s determine, the handler having been called by the router of routes.
OwnEnvelope(s, routes) ==
  response(calls[s].behaviour.result, deriveState(routes, calls[s].event)).v

----------------------------------------------------------------------------
(* The callback of the Lambda host *)

\* A Lambda entry point has been called.
LambdaCalled == phase # "idle" /\ handler.kind = "lambda"

\* What the promise the handler returned settles with.
HandlerSettled == Settled(Assign(returned, "trace", <<>>))

\* The one call of the callback that what the handler did calls for.
CallbackDue ==
  CASE returned.kind = "value" ->
         [op |-> "callback", error |-> Null, result |-> returned.val]
    [] returned.kind = "throw" ->
         [op |-> "callback", error |-> returned.val]
    [] returned.kind = "promise" /\ HandlerSettled.settle = "fulfil" ->
         [op |-> "callback", error |-> Null, result |-> HandlerSettled.val]
    [] returned.kind = "promise" /\ HandlerSettled.settle = "reject" ->
         [op |-> "callback", error |-> HandlerSettled.val]

\* C20: an invocation of a Lambda entry point calls the host's callback
\* exactly once: never a second time, and once by the time the invocation
\* is over.  The call is callback(null, result) with what the handler
\* returned or its promise fulfilled with, or callback(error), without a
\* result, with what the handler threw or its promise rejected with; it is
\* made at once for a value or a throw, and not before the promise has
\* settled for a deferred result.
C20_CallbackOnce ==
  LambdaCalled =>
    /\ Cardinality(CallbackCalls) <= 1
    /\ \A i \in CallbackCalls :
         /\ trace[i] = CallbackDue
         /\ i = Len(trace)
         /\ "result" \in DOMAIN trace[i] <=> trace[i].error = Null
    /\ returned.kind # "promise" => Cardinality(CallbackCalls) = 1
    /\ phase = "done" => Cardinality(CallbackCalls) = 1
    /\ (returned.kind = "promise" /\ Len(outcome.chain) > 2) =>
         CallbackCalls = {}

============================================================================
